---- MODULE Spec2Model ----
(***************************************************************************)
(* Model of the pay-per-use backend (src/backend/server.js): the payments  *)
(* table, the remote gateway call (callApi) and the three request handlers *)
(* POST /create-payment, GET /status/* and POST /webhook.                  *)
(*                                                                         *)
(* A handler that awaits the remote call is split at the await: other      *)
(* requests are served by the event loop while the call is in flight.      *)
(***************************************************************************)
EXTENDS Integers, Sequences, FiniteSets, TLC

\* ------------------------------------------------------------------ bounds
\* randomUUID() is modelled as a counter of fresh tokens; at most MaxUuid
\* tokens are drawn in a behaviour.
MaxUuid == 4

\* the clock is read in whole seconds and advances at most MaxTime times
MaxTime == 2

\* the page's poll counter is kept up to MaxCount, beyond the 20 it is
\* compared with, and stays there
MaxCount == 21

\* at most MaxPending poll requests of the page are outstanding
MaxPending == 2

\* --------------------------------------------------------- JavaScript values
\* null / absent string-valued field (url, status)
Null == "null"

\* null / absent localId
NullId == 0

\* A request-body value: undefined, a string (a sequence of chunks, so that
\* trailing slashes can be stripped) or a number.  Numbers are
\* [k, m]: k is "fin", "nan" or "inf"; m is the value in thousandths.  A
\* finite number of magnitude 1e19 or more has k = "big" and its sign as m.
Undefined == [t |-> "undefined", s |-> <<>>, k |-> "nan", m |-> 0]

Str(s) == [t |-> "string", s |-> s, k |-> "nan", m |-> 0]

Num(k, m) == [t |-> "number", s |-> <<>>, k |-> k, m |-> m]

NaN == [k |-> "nan", m |-> 0]

\* Number(<string>) for the strings the requests carry
StringToNumber(s) ==
  CASE s = <<>> -> [k |-> "fin", m |-> 0]
    [] s = <<"0">> -> [k |-> "fin", m |-> 0]
    [] s = <<"5">> -> [k |-> "fin", m |-> 5000]
    [] s = <<"5.00">> -> [k |-> "fin", m |-> 5000]
    [] s = <<"0.015">> -> [k |-> "fin", m |-> 15]
    [] s = <<"-5">> -> [k |-> "fin", m |-> -5000]
    [] s = <<"1e19">> -> [k |-> "big", m |-> 1]
    [] s = <<"Infinity">> -> [k |-> "inf", m |-> 1]
    [] s = <<"1e999">> -> [k |-> "inf", m |-> 1]
    [] s = <<"-Infinity">> -> [k |-> "inf", m |-> -1]
    [] OTHER -> NaN

\* Number(v)
ToNumber(v) ==
  CASE v.t = "undefined" -> NaN
    [] v.t = "number" -> [k |-> v.k, m |-> v.m]
    [] OTHER -> StringToNumber(v.s)

\* !v is false
Truthy(v) ==
  CASE v.t = "undefined" -> FALSE
    [] v.t = "number" -> ~(v.k = "nan" \/ (v.k = "fin" /\ v.m = 0))
    [] OTHER -> v.s # <<>>

\* a validation that lets zero through: parsed < 0
LtZero(n) == n.k # "nan" /\ n.m < 0

\* parsed <= 0 (false for NaN, as every comparison with NaN)
LeqZero(n) == n.k # "nan" /\ n.m <= 0

\* Number.isFinite
IsFinite(n) == n.k \in {"fin", "big"}

\* Math.round(parsed * 10^assetScale).toString(), assetScale = 2:
\* thousandths / 10, rounded half up; a product of 1e21 or more renders in
\* exponent notation ("1e+21"); a non-finite number renders as its name
ValueInt(n) ==
  CASE n.k = "fin" -> [form |-> "digits", val |-> (n.m + 5) \div 10]
    [] n.k = "big" -> [form |-> "exponent", val |-> 0]
    [] OTHER -> [form |-> "Infinity", val |-> 0]

RECURSIVE StripTrailingSlashes(_)
\* payee.replace(/\/+$/, "")
StripTrailingSlashes(s) ==
  IF s # <<>> /\ s[Len(s)] = "/" THEN StripTrailingSlashes(SubSeq(s, 1, Len(s) - 1))
  ELSE s

\* `${payee.replace(/\/+$/, "")}/incoming-payments`
TargetUrl(payee) == StripTrailingSlashes(payee.s) \o <<"/incoming-payments">>


\* ------------------------------------------------------------ configuration
\* process.env.OPEN_PAYMENTS_BASE || ""
OPEN_PAYMENTS_BASE == <<>>

\* ------------------------------------------------------- remote responses
\* What callApi returns: the HTTP status, headers.location[0] (Null when the
\* header is absent) and the body: json = "none" when JSON.parse threw (the
\* object then carries `text`), "null" when the body is the JSON literal
\* null, "object" when it is a JSON object with the optional fields id,
\* status, receiveAmount and metadata.localId.
Op(status, location, json, id, rstatus, recv, localId) ==
  [status |-> status, location |-> location, json |-> json, id |-> id,
   rstatus |-> rstatus, receiveAmount |-> recv, localId |-> localId]

\* no remote response (the handler did not get one)
NoOp == Op(0, Null, "none", Null, Null, FALSE, NullId)

\* op.json is truthy
HasJson(op) == op.json = "object"

\* the answers of the wallet to POST {payee}/incoming-payments
CreateRemoteResponses ==
  { Op(201, Null, "object", "https://wallet.example/merchant/incoming-payments/abc", Null, FALSE, NullId),
    Op(200, "https://wallet.example/loc", "none", Null, Null, FALSE, NullId),
    Op(202, "https://wallet.example/loc", "object", Null, Null, FALSE, NullId),
    Op(500, Null, "none", Null, Null, FALSE, NullId) }

\* a localId no randomUUID() call of this server returned
ForeignIds == {-1}

\* ------------------------------------------------------------ request bodies
Body(amount, currency, payee, memo, expiresInSeconds) ==
  [amount |-> amount, currency |-> currency, payee |-> payee, memo |-> memo,
   expiresInSeconds |-> expiresInSeconds]

Merchant == <<"https://wallet.example/merchant">>

\* the bodies POSTed to /create-payment: a payee is absent or a string, an
\* expiry absent or finite
CreateBodies ==
  { Body(Undefined, Undefined, Str(Merchant), Undefined, Undefined),
    Body(Num("fin", 0), Undefined, Str(Merchant), Undefined, Undefined),
    Body(Str(<<"abc">>), Undefined, Str(Merchant), Undefined, Undefined),
    Body(Str(<<"-5">>), Undefined, Str(Merchant), Undefined, Undefined),
    Body(Str(<<"0">>), Undefined, Str(Merchant), Undefined, Undefined),
    Body(Str(<<"5">>), Undefined, Undefined, Undefined, Undefined),
    Body(Str(<<"5.00">>), Undefined, Str(Merchant), Undefined, Undefined),
    Body(Str(<<"Infinity">>), Str(<<"USD">>), Str(Merchant \o <<"/">>), Str(<<"memo">>), Num("fin", 60000)) }

\* a payload POSTed to /webhook: the fields the handler reads, and an event
\* type it does not read
WebhookPayload(dl, ml, ml_, ds, st, di, id) ==
  [type |-> "event", dataLocalId |-> dl, metaLocalId |-> ml, metaLocal_id |-> ml_,
   dataStatus |-> ds, status |-> st, dataId |-> di, id |-> id]

\* the payloads POSTed to /webhook with localId l

WebhookPayloads(l) ==
  { WebhookPayload(l, NullId, NullId, "completed", Null, "https://wallet.example/hook", Null),
    WebhookPayload(NullId, l, NullId, Null, Null, Null, Null),
    WebhookPayload(NullId, NullId, l, Null, "expired", Null, "https://wallet.example/hook"),
    WebhookPayload(NullId, NullId, NullId, "completed", Null, "https://wallet.example/hook", Null) }

\* the answers of the wallet to GET {resource}, about the payment with localId l
StatusRemoteResponses(l) ==
  { Op(200, Null, "object", "https://wallet.example/merchant/incoming-payments/abc", "completed", FALSE, l),
    Op(200, Null, "object", Null, Null, TRUE, l),
    Op(200, Null, "object", Null, Null, FALSE, l),
    Op(200, Null, "object", Null, "completed", FALSE, NullId),
    Op(404, Null, "none", Null, Null, FALSE, NullId) }

\* the paths after /status/
StatusPaths ==
  { <<>>, <<"https://", "wallet.example/merchant/incoming-payments/abc">> }

\* --------------------------------------------------------------------- state
VARIABLES
  payments,   \* the rows of the payments table, in insertion order
  inflight,   \* /create-payment requests awaiting the answer of callApi
  nextUuid,   \* the next token randomUUID() returns
  now,        \* the clock, in seconds (CURRENT_TIMESTAMP, Date.now() / 1000)
  route,      \* the route of the last request answered
  request,    \* its body, payload or path
  reply,      \* the HTTP response it got
  calls,      \* the number of fetch() calls it made
  writes,     \* the number of rows it inserted or updated
  phase,      \* the page: "idle", "creating", "failed", "polling" (the interval
              \* is set) or "stopped" (the interval is cleared)
  count,      \* the page's poll counter
  pending     \* the poll callbacks awaiting their fetch()

vars == <<payments, inflight, nextUuid, now, route, request, reply, calls, writes,
          phase, count, pending>>

\* the state of the page
browser == <<phase, count, pending>>

\* res.status(code).json({...}) / res.status(code).send(text)
Reply(code, success, error, localId, localDbId, resource_url, op, text) ==
  [code |-> code, success |-> success, error |-> error, localId |-> localId,
   localDbId |-> localDbId, resource_url |-> resource_url, op |-> op, text |-> text]

\* res.status(code).json({ success: false, error })
Failure(code, error) == Reply(code, FALSE, error, NullId, NullId, Null, NoOp, "")

\* JSON.stringify(x), as stored in op_response
Stringify(x) == [json |-> x]

\* one row of the payments table
Row(id, local_id, amount, currency, payee, status, resource_url, op_response, created_at) ==
  [id |-> id, local_id |-> local_id, amount |-> amount, currency |-> currency,
   payee |-> payee, status |-> status, resource_url |-> resource_url,
   op_response |-> op_response, created_at |-> created_at]

Init ==
  /\ payments = <<>>
  /\ inflight = {}
  /\ nextUuid = 1
  /\ now = 0
  /\ route = "none"
  /\ request = <<>>
  /\ reply = Failure(0, "")
  /\ calls = 0
  /\ writes = 0
  /\ phase = "idle"
  /\ count = 0
  /\ pending = 0

\* the request is answered without touching the table
Answer(r, req, rep, n) ==
  /\ route' = r
  /\ request' = req
  /\ reply' = rep
  /\ calls' = n
  /\ writes' = 0
  /\ UNCHANGED <<payments, now>>

\* ------------------------------------------------------ POST /create-payment
\* const { amount, currency = "MXN", ... } = req.body
Currency(body) == IF body.currency.t = "undefined" THEN <<"MXN">> ELSE body.currency.s

\* memo || `Pago por servicio (${amount} ${currency})`
Memo(body) ==
  IF Truthy(body.memo) THEN [given |-> TRUE, text |-> body.memo.s, amount |-> Undefined, currency |-> <<>>]
  ELSE [given |-> FALSE, text |-> <<"Pago por servicio">>, amount |-> body.amount, currency |-> Currency(body)]

\* expiresInSeconds && Number(expiresInSeconds) > 0
HasExpiry(body) ==
  LET n == ToNumber(body.expiresInSeconds) IN
  Truthy(body.expiresInSeconds) /\ n.k # "nan" /\ n.m > 0

\* new Date(Date.now() + Number(expiresInSeconds) * 1000).toISOString() throws
\* a RangeError on a time that is not finite
ExpiryThrows(body) == HasExpiry(body) /\ ToNumber(body.expiresInSeconds).k # "fin"

\* payload.expiresAt in ms at time t (in seconds), 0 when it is not set
ExpiresAt(body, t) ==
  IF HasExpiry(body) THEN t * 1000 + ToNumber(body.expiresInSeconds).m ELSE 0

\* the JSON sent to the wallet
Payload(body, parsed, localId, t) ==
  [walletAddress |-> body.payee.s,
   value |-> ValueInt(parsed), assetCode |-> Currency(body), assetScale |-> 2,
   localId |-> localId, memo |-> Memo(body), expiresAt |-> ExpiresAt(body, t)]

\* every 2xx answer taken for a creation
StatusText2xx(op) == IF op.status \in 200..299 THEN "created" ELSE "pending"

\* (op.status === 201 || op.status === 200) ? "created" : "pending"
StatusText(op) == IF op.status = 201 \/ op.status = 200 THEN "created" ELSE "pending"

\* a || b on nullable strings
OrElse(a, b) == IF a # Null THEN a ELSE b

\* (op.json && (op.json.id || location)) ? (op.json?.id || location) : null
ResourceUrl(op) ==
  IF HasJson(op) /\ OrElse(op.id, op.location) # Null THEN OrElse(op.id, op.location)
  ELSE Null

\* a correlation token generated once, not per request
StaleLocalId(n) == 1

\* metadata.localId: randomUUID(), the n-th token drawn
NewLocalId(n) == n

\* const localDbId = randomUUID(), the n-th token drawn
NewDbId(n) == n

\* the handler up to `await callApi(targetUrl, "POST", payload)`
CreatePaymentBegin(body) ==
  LET parsed == ToNumber(body.amount)
      localId == NewLocalId(nextUuid)
  IN
  IF ~Truthy(body.amount) \/ ~Truthy(body.payee)
  THEN /\ Answer("create", body, Failure(400, "amount and payee required"), 0)
       /\ UNCHANGED <<inflight, nextUuid>>
  ELSE IF parsed.k = "nan" \/ LeqZero(parsed)
  THEN /\ Answer("create", body, Failure(400, "invalid amount"), 0)
       /\ UNCHANGED <<inflight, nextUuid>>
  ELSE IF ExpiryThrows(body) \/ body.payee.t # "string"
  THEN \* toISOString or payee.replace throws after the localId was drawn
       \* and before the remote call: caught, 500
       /\ nextUuid + Cardinality(inflight) <= MaxUuid
       /\ nextUuid' = nextUuid + 1
       /\ Answer("create", body,
                 Failure(500, IF ExpiryThrows(body) THEN "RangeError" ELSE "TypeError"), 0)
       /\ UNCHANGED inflight
  ELSE /\ nextUuid + Cardinality(inflight) + 1 <= MaxUuid
       /\ nextUuid' = nextUuid + 1
       /\ inflight' = inflight \cup
            { [localId |-> localId, body |-> body, parsed |-> parsed,
               url |-> TargetUrl(body.payee),
               payload |-> Payload(body, parsed, localId, now)] }
       /\ UNCHANGED <<payments, now, route, request, reply, calls, writes>>

\* fetch() rejected (network failure): caught by the handler, 500
CreatePaymentThrow(q) ==
  /\ inflight' = inflight \ {q}
  /\ Answer("create", q.body, Failure(500, "FetchError"), 1)
  /\ UNCHANGED nextUuid

\* the handler from the answer `op` of callApi on
CreatePaymentFinish(q, op) ==
  LET localDbId == NewDbId(nextUuid)
      statusText == StatusText(op)
      resource_url == ResourceUrl(op)
  IN /\ inflight' = inflight \ {q}
     /\ nextUuid' = nextUuid + 1
     /\ payments' = Append(payments,
          Row(localDbId, q.payload.localId, q.parsed, Currency(q.body), q.body.payee.s,
              statusText, resource_url, Stringify(op), now))
     /\ route' = "create"
     /\ request' = q.body
     /\ reply' = Reply(200, TRUE, "", q.payload.localId, localDbId, resource_url, op, "")
     /\ calls' = 1
     /\ writes' = 1
     /\ UNCHANGED now

\* ------------------------------------------------------------- GET /status/*
\* raw.startsWith("http://") || raw.startsWith("https://")
IsUrl(raw) == raw # <<>> /\ raw[1] \in {"http://", "https://"}

RECURSIVE StripLeadingSlashes(_)
\* raw.replace(/^\/+/, "")
StripLeadingSlashes(s) ==
  IF s # <<>> /\ s[1] = "/" THEN StripLeadingSlashes(Tail(s)) ELSE s

\* isUrl ? raw : (base without trailing slashes) + "/" + (raw without leading slashes)
StatusUrl(raw) ==
  IF IsUrl(raw) THEN raw
  ELSE StripTrailingSlashes(OPEN_PAYMENTS_BASE) \o <<"/">> \o StripLeadingSlashes(raw)

\* opJson?.metadata?.localId || null
PollLocalId(op) == IF HasJson(op) THEN op.localId ELSE NullId

\* a status that defaults, as the webhook's does
PollStatusDefault(op) ==
  IF ~HasJson(op) THEN Null
  ELSE OrElse(op.rstatus, IF op.receiveAmount THEN "received" ELSE "polled")

\* opJson?.status || (opJson?.receiveAmount ? "received" : null) || null
PollStatus(op) ==
  IF ~HasJson(op) THEN Null
  ELSE OrElse(op.rstatus, IF op.receiveAmount THEN "received" ELSE Null)

\* the rows `WHERE local_id = ?` selects
Matching(rows, localId) == {i \in 1..Len(rows) : rows[i].local_id = localId}

\* a REPLACE of the row: the columns it does not name fall back to their defaults
ReplaceStatus(rows, localId, status, op_response) ==
  [i \in 1..Len(rows) |->
     IF rows[i].local_id = localId
     THEN [rows[i] EXCEPT !.status = status, !.op_response = op_response,
                          !.amount = NaN, !.currency = <<>>, !.payee = <<>>]
     ELSE rows[i]]

\* an UPDATE that never lets a completed payment change status
UpdateStatusMonotone(rows, localId, status, op_response) ==
  [i \in 1..Len(rows) |->
     IF rows[i].local_id = localId
     THEN [rows[i] EXCEPT !.status = IF rows[i].status = "completed" THEN "completed" ELSE status,
                          !.op_response = op_response]
     ELSE rows[i]]

\* an UPDATE that marks a status reported again instead of storing it
UpdateStatusMarking(rows, localId, status, op_response) ==
  [i \in 1..Len(rows) |->
     IF rows[i].local_id = localId
     THEN [rows[i] EXCEPT !.status = IF rows[i].status = status THEN "unchanged" ELSE status,
                          !.op_response = op_response]
     ELSE rows[i]]

\* UPDATE payments SET status = ?, op_response = ? WHERE local_id = ?
UpdateStatus(rows, localId, status, op_response) ==
  [i \in 1..Len(rows) |->
     IF rows[i].local_id = localId
     THEN [rows[i] EXCEPT !.status = status, !.op_response = op_response]
     ELSE rows[i]]

\* an upsert: the update that matches no row inserts one
UpsertAll(rows, localId, status, op_response, resource_url) ==
  IF \A i \in 1..Len(rows) : rows[i].local_id # localId
  THEN Append(rows, Row(NullId, localId, NaN, <<>>, <<>>, status, resource_url, op_response, 0))
  ELSE [i \in 1..Len(rows) |->
          IF rows[i].local_id = localId
          THEN [rows[i] EXCEPT !.status = status, !.op_response = op_response,
                               !.resource_url = resource_url]
          ELSE rows[i]]

\* the same UPDATE without its WHERE clause
UpdateEveryRow(rows, localId, status, op_response, resource_url) ==
  [i \in 1..Len(rows) |->
     [rows[i] EXCEPT !.status = status, !.op_response = op_response,
                     !.resource_url = resource_url]]

\* UPDATE payments SET status = ?, op_response = ?, resource_url = ? WHERE local_id = ?
UpdateAll(rows, localId, status, op_response, resource_url) ==
  [i \in 1..Len(rows) |->
     IF rows[i].local_id = localId
     THEN [rows[i] EXCEPT !.status = status, !.op_response = op_response,
                          !.resource_url = resource_url]
     ELSE rows[i]]

\* the localIds the wallet and the webhook sender can know of
ExtIds ==
  {payments[i].local_id : i \in 1..Len(payments)} \cup {q.localId : q \in inflight}
    \cup ForeignIds

\* the path is missing: 400
StatusMissing(raw) ==
  /\ raw = <<>>
  /\ Answer("status", [raw |-> raw, url |-> <<>>, remote |-> NoOp],
            Failure(400, "resource path required"), 0)
  /\ UNCHANGED <<inflight, nextUuid>>

\* fetch() rejected: 500
StatusThrow(raw) ==
  /\ raw # <<>>
  /\ Answer("status", [raw |-> raw, url |-> StatusUrl(raw), remote |-> NoOp],
            Failure(500, "FetchError"), 1)
  /\ UNCHANGED <<inflight, nextUuid>>

\* res.json({ success: true, op })
StatusReply(op) == Reply(200, TRUE, "", NullId, NullId, Null, op, "")

\* the handler with the answer `op` of callApi(url, "GET"); the table is not
\* read before the await, so the handler is one step at the time of its update
Status(raw, op) ==
  LET localId == PollLocalId(op)
      newStatus == PollStatus(op)
      update == localId # NullId /\ newStatus # Null
  IN /\ raw # <<>>
     /\ payments' = IF update THEN UpdateStatus(payments, localId, newStatus, Stringify(op))
                    ELSE payments
     /\ writes' = IF update THEN Cardinality(Matching(payments, localId)) ELSE 0
     /\ route' = "status"
     /\ request' = [raw |-> raw, url |-> StatusUrl(raw), remote |-> op]
     /\ reply' = StatusReply(op)
     /\ calls' = 1
     /\ UNCHANGED <<inflight, nextUuid, now>>

\* the handler without its inner try: a failed update reaches the outer catch
StatusUncaught(op) == Failure(500, "SqliteError")

\* the inner catch (empty) swallows a failed update; then res.json({ success: true, op })
StatusCaught(op) == StatusReply(op)

\* the handler when db.prepare or update.run throws (a storage failure, or a
\* localId or status that SQLite cannot bind)
StatusUpdateThrows(raw, op) ==
  /\ raw # <<>>
  /\ PollLocalId(op) # NullId
  /\ PollStatus(op) # Null
  /\ Answer("status", [raw |-> raw, url |-> StatusUrl(raw), remote |-> op], StatusCaught(op), 1)
  /\ UNCHANGED <<inflight, nextUuid>>

\* -------------------------------------------------------------- POST /webhook
\* a || b on nullable localIds
OrElseId(a, b) == IF a # NullId THEN a ELSE b

\* payload?.data?.metadata?.localId || payload?.metadata?.localId
\*   || payload?.metadata?.local_id || null
WebhookLocalId(p) == OrElseId(p.dataLocalId, OrElseId(p.metaLocalId, p.metaLocal_id))

\* payload?.data?.status || payload?.status || "webhook_updated"
WebhookStatus(p) == OrElse(p.dataStatus, OrElse(p.status, "webhook_updated"))

\* payload?.data?.id || payload?.id || null
WebhookResourceUrl(p) == OrElse(p.dataId, p.id)

\* a receiver that refuses the payloads it cannot correlate
WebhookReplyStrict(payload) ==
  IF WebhookLocalId(payload) = NullId
  THEN Reply(400, FALSE, "", NullId, NullId, Null, NoOp, "error")
  ELSE Reply(200, TRUE, "", NullId, NullId, Null, NoOp, "ok")

\* res.status(200).send("ok")
WebhookReply(payload) == Reply(200, TRUE, "", NullId, NullId, Null, NoOp, "ok")

Webhook(payload) ==
  LET localId == WebhookLocalId(payload)
      newStatus == WebhookStatus(payload)
      resource_url == WebhookResourceUrl(payload)
  IN /\ payments' = IF localId # NullId
                    THEN UpdateAll(payments, localId, newStatus, Stringify(payload), resource_url)
                    ELSE payments
     /\ writes' = IF localId # NullId THEN Cardinality(Matching(payments, localId)) ELSE 0
     /\ route' = "webhook"
     /\ request' = payload
     /\ reply' = WebhookReply(payload)
     /\ calls' = 0
     /\ UNCHANGED <<inflight, nextUuid, now>>

\* the handler without its inner try: a failed update reaches the outer catch
WebhookUncaught(payload) == Reply(500, FALSE, "", NullId, NullId, Null, NoOp, "error")

\* the inner catch logs the failed update; then res.status(200).send("ok")
WebhookCaught(payload) == WebhookReply(payload)

\* the handler when db.prepare or update.run throws
WebhookUpdateThrows(payload) ==
  /\ WebhookLocalId(payload) # NullId
  /\ Answer("webhook", payload, WebhookCaught(payload), 0)
  /\ UNCHANGED <<inflight, nextUuid>>

\* ------------------------------------------------------------- specification
Next ==
  \/ \E body \in CreateBodies : CreatePaymentBegin(body) /\ UNCHANGED browser
  \/ \E q \in inflight : CreatePaymentThrow(q) /\ UNCHANGED browser
  \/ \E q \in inflight, op \in CreateRemoteResponses : CreatePaymentFinish(q, op)
       /\ UNCHANGED browser
  \/ \E raw \in StatusPaths : StatusMissing(raw) /\ UNCHANGED browser
  \/ \E raw \in StatusPaths \ {<<>>} : StatusThrow(raw) /\ UNCHANGED browser
  \/ \E raw \in StatusPaths \ {<<>>}, op \in UNION {StatusRemoteResponses(l) : l \in ExtIds} :
       Status(raw, op) /\ UNCHANGED browser
  \/ \E payload \in UNION {WebhookPayloads(l) : l \in ExtIds} : Webhook(payload)
       /\ UNCHANGED browser

Spec == Init /\ [][Next]_vars

\* the answers of the wallet to repeated GETs of one resource: those above, and
\* a completed payment that also reports its receiveAmount
RepeatedStatusResponses(l) ==
  StatusRemoteResponses(l) \cup { Op(200, Null, "object", Null, "completed", TRUE, l) }

\* one valid body
PollBodies == { Body(Str(<<"5.00">>), Undefined, Str(Merchant), Undefined, Undefined) }

NextPoll ==
  \/ \E body \in PollBodies : CreatePaymentBegin(body) /\ UNCHANGED browser
  \/ \E q \in inflight, op \in CreateRemoteResponses : CreatePaymentFinish(q, op)
       /\ UNCHANGED browser
  \/ \E raw \in StatusPaths \ {<<>>}, op \in UNION {RepeatedStatusResponses(l) : l \in ExtIds} :
       Status(raw, op) /\ UNCHANGED browser
  \/ \E payload \in UNION {WebhookPayloads(l) : l \in ExtIds} : Webhook(payload)
       /\ UNCHANGED browser

\* the server polled repeatedly about the payments it created
SpecPoll == Init /\ [][NextPoll]_vars

\* ------------------------------------------------------------ GET /payments
\* LIMIT 100
ListLimit == 100

\* the orders ORDER BY created_at DESC allows: rows of one second in any order
Orders(rows) ==
  { p \in [1..Len(rows) -> 1..Len(rows)] :
      /\ \A a, b \in 1..Len(rows) : a # b => p[a] # p[b]
      /\ \A a, b \in 1..Len(rows) :
           a < b => rows[p[a]].created_at >= rows[p[b]].created_at }

\* SELECT * FROM payments ORDER BY created_at DESC LIMIT 100, in the order p
Select(rows, p) ==
  LET n == IF Len(rows) < ListLimit THEN Len(rows) ELSE ListLimit
  IN [a \in 1..n |-> rows[p[a]]]

\* res.json({ count: rows.length, rows })
ListPayments(p) ==
  LET rows == Select(payments, p)
  IN /\ route' = "payments"
     /\ request' = <<>>
     /\ reply' = [code |-> 200, count |-> Len(rows), rows |-> rows]
     /\ calls' = 0
     /\ writes' = 0
     /\ UNCHANGED <<payments, inflight, nextUuid, now>>

\* CURRENT_TIMESTAMP moves on to the next second
Tick ==
  /\ now < MaxTime
  /\ now' = now + 1
  /\ UNCHANGED <<payments, inflight, nextUuid, route, request, reply, calls, writes>>

\* a valid body, and one whose amount is 1e19
ListBodies ==
  { Body(Str(<<"5.00">>), Undefined, Str(Merchant), Undefined, Undefined),
    Body(Str(<<"1e19">>), Undefined, Str(Merchant), Undefined, Undefined) }

NextList ==
  \/ \E body \in ListBodies : CreatePaymentBegin(body) /\ UNCHANGED browser
  \/ \E q \in inflight, op \in CreateRemoteResponses : CreatePaymentFinish(q, op)
       /\ UNCHANGED browser
  \/ \E p \in Orders(payments) : ListPayments(p) /\ UNCHANGED browser
  \/ Tick /\ UNCHANGED browser

\* payments created as the clock advances, and listed
SpecList == Init /\ [][NextList]_vars

\* the steps in which the storage layer fails an UPDATE
Faults ==
  \/ \E raw \in StatusPaths \ {<<>>}, op \in UNION {StatusRemoteResponses(l) : l \in ExtIds} :
       StatusUpdateThrows(raw, op) /\ UNCHANGED browser
  \/ \E payload \in UNION {WebhookPayloads(l) : l \in ExtIds} : WebhookUpdateThrows(payload)
       /\ UNCHANGED browser

NextFaults == Next \/ Faults

\* the server with a storage layer that can fail
SpecFaults == Init /\ [][NextFaults]_vars

\* -------------------------------------------------------------- the page
\* count >= 20
MaxPolls == 20

\* the state of the server
server == <<payments, inflight, nextUuid, now, route, request, reply, calls, writes>>

\* the form's values: a valid amount, and one that is not a number
SubmitBodies ==
  { Body(Str(<<"5.00">>), Undefined, Str(Merchant), Undefined, Undefined),
    Body(Str(<<"abc">>), Undefined, Str(Merchant), Undefined, Undefined) }

\* the answers of the wallet to the page's polls about the payment l
PagePollResponses(l) ==
  { Op(200, Null, "object", Null, "completed", FALSE, l),
    Op(200, Null, "object", Null, Null, TRUE, l),
    Op(404, Null, "none", Null, Null, FALSE, NullId) }

\* the submit handler up to the server's `await callApi`; a request the
\* server refuses at once has data.success false, and the handler returns
Submit(body) ==
  /\ phase = "idle"
  /\ CreatePaymentBegin(body)
  /\ phase' = IF inflight' # inflight THEN "creating" ELSE "failed"
  /\ UNCHANGED <<count, pending>>

\* data.success is false: the handler returns before setInterval
CreateFailed(q) ==
  /\ phase = "creating"
  /\ CreatePaymentThrow(q)
  /\ phase' = "failed"
  /\ UNCHANGED <<count, pending>>

\* data.success is true: let count = 0; setInterval(..., 3000)
CreateAnswered(q, op) ==
  /\ phase = "creating"
  /\ CreatePaymentFinish(q, op)
  /\ phase' = "polling"
  /\ count' = 0
  /\ UNCHANGED pending

\* the interval fires: count++, and the callback awaits fetch(/status/...)
IntervalFires ==
  /\ phase = "polling"
  /\ pending < MaxPending
  /\ count' = IF count < MaxCount THEN count + 1 ELSE count
  /\ pending' = pending + 1
  /\ UNCHANGED <<server, phase>>

\* s.op?.json?.status === "completed"
Completed(s) == HasJson(s.op) /\ s.op.rstatus = "completed"

\* the callback after its awaits, with the server's answer s:
\* if (completed || count >= 20) clearInterval(interval)
Resume(s) ==
  /\ pending' = pending - 1
  /\ phase' = IF phase = "polling" /\ (Completed(s) \/ count >= MaxPolls)
              THEN "stopped" ELSE phase
  /\ UNCHANGED count

\* the server answers a poll of the page with what the wallet said
PollAnswered(raw, op) ==
  /\ pending > 0
  /\ Status(raw, op)
  /\ Resume(reply')

\* the server answers a poll of the page 500: it could not reach the wallet
PollFailed(raw) ==
  /\ pending > 0
  /\ StatusThrow(raw)
  /\ Resume(reply')

\* the page's fetch() rejects (the server is unreachable): the callback
\* throws at its first await and never gets to clearInterval
PollRejects ==
  /\ pending > 0
  /\ pending' = pending - 1
  /\ UNCHANGED <<server, phase, count>>

\* a poll request of the page settles
PollSettles ==
  \/ \E raw \in StatusPaths \ {<<>>},
        op \in UNION {PagePollResponses(payments[i].local_id) : i \in 1..Len(payments)} :
       PollAnswered(raw, op)
  \/ \E raw \in StatusPaths \ {<<>>} : PollFailed(raw)
  \/ PollRejects

NextBrowser ==
  \/ \E body \in SubmitBodies : Submit(body)
  \/ \E q \in inflight : CreateFailed(q)
  \/ \E q \in inflight, op \in CreateRemoteResponses : CreateAnswered(q, op)
  \/ IntervalFires
  \/ PollSettles

\* one page and the server; the timer fires while the interval is set, and
\* every request of the page settles
SpecBrowser ==
  Init /\ [][NextBrowser]_vars /\ WF_vars(IntervalFires) /\ WF_vars(PollSettles)

\* ====================================================================== claims
\* the row with primary key id, in the table `rows`
RowsWithId(rows, id) == {i \in 1..Len(rows) : rows[i].id = id}

\* the last request answered was a /create-payment that inserted its row
Created == route = "create" /\ reply.success

\* the row the last /create-payment inserted
CreatedRow == payments[CHOOSE i \in RowsWithId(payments, reply.localDbId) : TRUE]

\* ---------------------------------------------------------------------- C1
\* C1: once a record's resourceUrl is non-null no poll or webhook update sets
\* it back to null: in every step a non-null resource_url either stays as it
\* is or is replaced by the non-null URL the webhook of that step supplies.
C1_ResourceUrlNeverNulled ==
  [][\A i \in 1..Len(payments) :
       payments[i].resource_url # Null =>
         \/ payments'[i].resource_url = payments[i].resource_url
         \/ /\ route' = "webhook"
            /\ WebhookResourceUrl(request') # Null
            /\ payments'[i].resource_url = WebhookResourceUrl(request')]_vars

\* ---------------------------------------------------------------------- C2
\* C2: in every reachable state every record's amount is a finite number
\* strictly greater than 0.
C2_AmountFinitePositive ==
  \A i \in 1..Len(payments) : IsFinite(payments[i].amount) /\ payments[i].amount.m > 0

\* ---------------------------------------------------------------------- C3
\* the amount is missing, non-numeric or <= 0, or the payee is missing
Rejectable(body) ==
  \/ body.amount.t = "undefined"
  \/ ToNumber(body.amount).k = "nan"
  \/ (ToNumber(body.amount).k # "nan" /\ ToNumber(body.amount).m <= 0)
  \/ body.payee.t = "undefined"

\* C3: a /create-payment whose amount is missing, non-numeric or <= 0, or
\* whose payee is missing, is answered 400 with success: false, makes no
\* remote call and no insert, and leaves the table as it was.
C3_InvalidCreateRejected ==
  [][(route' = "create" /\ Rejectable(request')) =>
       /\ reply'.code = 400
       /\ ~reply'.success
       /\ calls' = 0
       /\ writes' = 0
       /\ payments' = payments]_vars

\* a rejected "0" (a truthy string that parses to zero) with rows in the table
C3_Witness ==
  /\ route = "create"
  /\ request.amount = Str(<<"0">>)
  /\ reply.code = 400
  /\ calls = 0
  /\ Len(payments) > 0

\* ---------------------------------------------------------------------- C4
\* the request passes the two validations of the specification
PassesValidation(body) ==
  /\ body.amount.t # "undefined"
  /\ body.payee.t # "undefined"
  /\ ToNumber(body.amount).k # "nan"
  /\ ToNumber(body.amount).m > 0

\* C4: every /create-payment that passes validation and gets as far as its
\* remote call makes exactly one remote call and exactly one insert, whatever
\* the outcome of the remote call.
C4_OneCallOneInsert ==
  (route = "create" /\ PassesValidation(request) /\ calls >= 1) =>
    (calls = 1 /\ writes = 1)

\* ---------------------------------------------------------------------- C5
\* no two rows share a localId or an id
NoSharedIds ==
  \A i, j \in 1..Len(payments) :
    i # j => payments[i].local_id # payments[j].local_id /\ payments[i].id # payments[j].id

\* the step answers a /create-payment with success
CreateSucceeds == route' = "create" /\ reply'.success /\ reply' # reply

\* the step appends exactly one row, whose localId and id no earlier row has
AddsOneFreshRow ==
  /\ Len(payments') = Len(payments) + 1
  /\ SubSeq(payments', 1, Len(payments)) = payments
  /\ payments'[Len(payments')].local_id = reply'.localId
  /\ payments'[Len(payments')].id = reply'.localDbId
  /\ \A i \in 1..Len(payments) :
       /\ payments[i].local_id # reply'.localId
       /\ payments[i].id # reply'.localDbId

\* C5: every successful /create-payment adds exactly one record, whose localId
\* and id differ from those of every record already present; in every
\* reachable state no two records share a localId (or an id).
C5_FreshLocalId == [](NoSharedIds) /\ [][CreateSucceeds => AddsOneFreshRow]_vars

\* two rows in the table, the second just inserted
C5_Witness == Created /\ Len(payments) = 2 /\ payments[2].id = reply.localDbId

\* ---------------------------------------------------------------------- C6
\* C6: a /create-payment whose remote call was made, whether it ended in a
\* 2xx answer, a non-2xx answer or a network failure, is answered with a
\* success result carrying the remote outcome, and its record is persisted
\* (with status pending when the answer is not 2xx).
C6_RemoteOutcomeIsData ==
  (route = "create" /\ calls = 1) =>
    /\ reply.code = 200
    /\ reply.success
    /\ writes = 1
    /\ RowsWithId(payments, reply.localDbId) # {}
    /\ (reply.op.status \notin 200..299 => CreatedRow.status = "pending")

\* ---------------------------------------------------------------------- C7
\* the resourceUrl of the specification: the body's id, else the Location
\* header, else null
SpecResourceUrl(op) ==
  IF op.json = "object" /\ op.id # Null THEN op.id
  ELSE IF op.location # Null THEN op.location
  ELSE Null

\* C7: the resourceUrl stored and returned by /create-payment is the remote
\* JSON body's id when present, otherwise the Location header when present
\* (whether or not the body parsed as JSON), otherwise null.
C7_ResourceUrlPrefersIdThenLocation ==
  Created =>
    /\ reply.resource_url = SpecResourceUrl(reply.op)
    /\ CreatedRow.resource_url = SpecResourceUrl(reply.op)

\* ---------------------------------------------------------------------- C8
\* C8: the row inserted by /create-payment has status "created" exactly when
\* the remote HTTP status is 200 or 201, and "pending" for every other status.
C8_CreatedIff200Or201 ==
  Created =>
    /\ (CreatedRow.status = "created" <=> reply.op.status \in {200, 201})
    /\ (CreatedRow.status = "pending" <=> reply.op.status \notin {200, 201})

\* a 202 answer stored as pending
C8_Witness == Created /\ reply.op.status = 202 /\ CreatedRow.status = "pending"

\* ---------------------------------------------------------------------- C9
\* the localId the answered request tried to update, NullId when it tried none
UpdateKey(r, req, rep) ==
  CASE r = "webhook" -> WebhookLocalId(req)
    [] r = "status" /\ rep.code = 200 /\ PollStatus(rep.op) # Null -> PollLocalId(rep.op)
    [] OTHER -> NullId

\* C9: a poll or webhook update whose localId matches no record changes
\* neither the number of records nor any record, and is answered 200.
C9_UnmatchedUpdateIsNoOp ==
  [][(/\ route' \in {"status", "webhook"}
      /\ UpdateKey(route', request', reply') # NullId
      /\ Matching(payments, UpdateKey(route', request', reply')) = {}) =>
       /\ payments' = payments
       /\ writes' = 0
       /\ reply'.code = 200
       /\ reply'.success]_vars

\* a webhook that carries a localId no row has, received with rows in the table
C9_Witness ==
  /\ route = "webhook"
  /\ WebhookLocalId(request) # NullId
  /\ Matching(payments, WebhookLocalId(request)) = {}
  /\ Len(payments) > 0
  /\ writes = 0

\* --------------------------------------------------------------------- C10
\* none of data.metadata.localId, metadata.localId, metadata.local_id is present
NoLocalIdField(p) ==
  p.dataLocalId = NullId /\ p.metaLocalId = NullId /\ p.metaLocal_id = NullId

\* C10: a webhook payload without any of the three localId fields is answered
\* 200 "ok" and changes no row, in any state of the table.
C10_WebhookWithoutLocalId ==
  [][(route' = "webhook" /\ NoLocalIdField(request')) =>
       /\ reply'.code = 200
       /\ reply'.text = "ok"
       /\ writes' = 0
       /\ payments' = payments]_vars

\* such a payload, carrying a status and an id, received with rows in the table
C10_Witness ==
  /\ route = "webhook"
  /\ NoLocalIdField(request)
  /\ request.dataStatus # Null
  /\ request.dataId # Null
  /\ reply.text = "ok"
  /\ Len(payments) > 0

\* --------------------------------------------------------------------- C11
\* C11: the webhook endpoint answers 200 "ok" for every payload, also when
\* the update of the record fails in the storage layer and when no record
\* matches.
C11_WebhookAlwaysOk ==
  route = "webhook" => (reply.code = 200 /\ reply.text = "ok")

\* a webhook for an existing record whose update failed: the row is untouched
C11_Witness ==
  /\ route = "webhook"
  /\ Matching(payments, WebhookLocalId(request)) # {}
  /\ writes = 0
  /\ reply.text = "ok"

\* --------------------------------------------------------------------- C12
\* C12: whenever the remote fetch of a poll returned a response, the caller
\* gets 200 {success: true, op: that response}, whether or not a localId and a
\* status were extracted, a record matched, or the update succeeded.
C12_PollReturnsRemoteResponse ==
  (route = "status" /\ request.remote # NoOp) =>
    /\ reply.code = 200
    /\ reply.success
    /\ reply.op = request.remote

\* a poll about an existing record whose update failed
C12_Witness ==
  /\ route = "status"
  /\ request.remote # NoOp
  /\ PollStatus(request.remote) # Null
  /\ Matching(payments, PollLocalId(request.remote)) # {}
  /\ writes = 0
  /\ reply.success

\* --------------------------------------------------------------------- C13
\* the last request answered was a poll that carried localId l and status st
PolledWith(r, rep, l, st) ==
  r = "status" /\ rep.code = 200 /\ PollLocalId(rep.op) = l /\ PollStatus(rep.op) = st

\* C13: a poll answered right after a poll, both carrying the same localId
\* and the same status, leaves the status of the matching records as the
\* first poll left it.
C13_RepeatedPollKeepsStatus ==
  [][\A i \in 1..Len(payments) :
       ( /\ PolledWith(route, reply, payments[i].local_id, payments[i].status)
         /\ PolledWith(route', reply', payments[i].local_id, payments[i].status)
         /\ writes' >= 1 )
       => payments'[i].status = payments[i].status]_vars

\* a second poll with another body and the same status has been applied: the
\* row keeps "completed" and now stores the second response
C13_Witness ==
  /\ route = "status"
  /\ writes = 1
  /\ reply.op.receiveAmount
  /\ \E i \in 1..Len(payments) :
       /\ payments[i].local_id = PollLocalId(reply.op)
       /\ payments[i].status = "completed"
       /\ PollStatus(reply.op) = "completed"

\* --------------------------------------------------------------------- C14
\* the columns set at insert
Immutable(row) ==
  <<row.id, row.local_id, row.amount, row.currency, row.payee, row.created_at>>

\* C14: no step removes a record, and every record keeps the id, localId,
\* amount, currency, payee and createdAt it was inserted with.
C14_InsertedColumnsKept ==
  [][/\ Len(payments') >= Len(payments)
     /\ \A i \in 1..Len(payments) : Immutable(payments'[i]) = Immutable(payments[i])]_vars

\* a record whose status, response and resourceUrl were all rewritten by a
\* webhook, next to another record
C14_Witness ==
  /\ route = "webhook"
  /\ writes = 1
  /\ Len(payments) = 2
  /\ \E i \in Matching(payments, WebhookLocalId(request)) :
       /\ payments[i].status = "expired"
       /\ payments[i].resource_url = WebhookResourceUrl(request)
       /\ payments[i].amount.k = "fin"

\* --------------------------------------------------------------------- C17
\* the remote JSON body yields both a metadata.localId and a status
YieldsBoth(op) ==
  op.json = "object" /\ op.localId # NullId /\ (op.rstatus # Null \/ op.receiveAmount)

\* the status the body yields: its status field, else "received"
YieldedStatus(op) == IF op.rstatus # Null THEN op.rstatus ELSE "received"

\* row i is not the same before and after the step
Touched(i) ==
  \/ Immutable(payments'[i]) # Immutable(payments[i])
  \/ payments'[i].status # payments[i].status
  \/ payments'[i].resource_url # payments[i].resource_url
  \/ payments'[i].op_response # payments[i].op_response

\* C17: a poll changes the table only when the remote JSON body yields both a
\* localId and a status; it then changes only the status and the stored
\* response of the records with that localId; resourceUrl, the other columns,
\* the other records and the number of records stay as they were.
C17_PollFrame ==
  [][route' = "status" =>
       /\ Len(payments') = Len(payments)
       /\ \A i \in 1..Len(payments) :
            /\ Immutable(payments'[i]) = Immutable(payments[i])
            /\ payments'[i].resource_url = payments[i].resource_url
            /\ Touched(i) =>
                 /\ reply'.code = 200
                 /\ YieldsBoth(reply'.op)
                 /\ payments[i].local_id = reply'.op.localId
                 /\ payments'[i].status = YieldedStatus(reply'.op)
                 /\ payments'[i].op_response = Stringify(reply'.op)]_vars

\* a poll that reported receiveAmount has updated a record that has a
\* resourceUrl, next to another record
C17_Witness ==
  /\ route = "status"
  /\ writes = 1
  /\ Len(payments) = 2
  /\ \E i \in Matching(payments, PollLocalId(reply.op)) :
       /\ payments[i].status = "received"
       /\ payments[i].resource_url # Null
       /\ payments[i].op_response = Stringify(reply.op)

\* --------------------------------------------------------------------- C18
\* the localIds of the creates awaiting the remote call's answer
InflightIds == {q.localId : q \in inflight}

\* C18: a webhook or poll update that carries the localId of a create still
\* awaiting its remote call matches no record and changes nothing; the record
\* inserted when the call returns carries the creation-time status (created or
\* pending), response and resourceUrl only.
C18_UpdateBeforeInsertDropped ==
  [][/\ ( /\ route' \in {"status", "webhook"}
          /\ UpdateKey(route', request', reply') \in InflightIds )
        => (payments' = payments /\ writes' = 0)
     /\ \A q \in inflight \ inflight' :
          Len(payments') > Len(payments) =>
            LET row == payments'[Len(payments')]
            IN /\ Len(payments') = Len(payments) + 1
               /\ row.local_id = q.localId
               /\ row.status \in {"created", "pending"}
               /\ row.status = StatusText(reply'.op)
               /\ row.resource_url = ResourceUrl(reply'.op)
               /\ row.op_response = Stringify(reply'.op)]_vars

\* a webhook reporting "completed" for a create in flight has been answered
\* and has written nothing
C18_Witness ==
  /\ route = "webhook"
  /\ WebhookLocalId(request) \in InflightIds
  /\ WebhookStatus(request) = "completed"
  /\ Matching(payments, WebhookLocalId(request)) = {}
  /\ writes = 0
  /\ reply.text = "ok"

\* --------------------------------------------------------------------- C19
\* the status the answered request carried
CarriedStatus(r, req, rep) ==
  IF r = "webhook" THEN WebhookStatus(req) ELSE PollStatus(rep.op)

\* the step applies an update to the records with localId l
Applies(l) ==
  /\ route' \in {"status", "webhook"}
  /\ UpdateKey(route', request', reply') = l
  /\ writes' >= 1

\* C19: a record's status is the one carried by the update applied to it last,
\* or its creation-time status when none was applied: an applied update with
\* the record's localId sets the status to the one it carries, whatever status
\* is stored, and no other step changes it.
C19_LastAppliedUpdateWins ==
  [][/\ \A i \in 1..Len(payments) :
          payments'[i].status =
            IF Applies(payments[i].local_id)
            THEN CarriedStatus(route', request', reply')
            ELSE payments[i].status
     /\ \A i \in (Len(payments) + 1)..Len(payments') :
          payments'[i].status = StatusText(reply'.op)]_vars

\* a poll has set "received" on a record whose resourceUrl a webhook had set
\* together with a final status
C19_Witness ==
  /\ route = "status"
  /\ writes = 1
  /\ PollStatus(reply.op) = "received"
  /\ \E i \in Matching(payments, PollLocalId(reply.op)) :
       /\ payments[i].status = "received"
       /\ payments[i].resource_url = "https://wallet.example/hook"

\* --------------------------------------------------------------------- C15
\* the position at which the record with this id was inserted
InsertedAt(id) == CHOOSE i \in 1..Len(payments) : payments[i].id = id

\* C15: the listing returns at most 100 records, and of any two records it
\* returns the one inserted later comes first.
C15_ListNewestFirst ==
  route = "payments" =>
    /\ reply.count <= ListLimit
    /\ \A a, b \in 1..Len(reply.rows) :
         a < b => InsertedAt(reply.rows[a].id) > InsertedAt(reply.rows[b].id)

\* --------------------------------------------------------------------- C16
\* round(a * 100) for an amount a given in thousandths
RoundedMinorUnits(n) == (n.m + 5) \div 10

\* C16: the incomingAmount.value sent for an accepted finite amount is
\* round(amount * 100) written in decimal digits, without exponent.
C16_ValueIsIntegerString ==
  \A q \in inflight :
    IsFinite(q.parsed) =>
      /\ q.payload.value.form = "digits"
      /\ q.parsed.k = "fin" => q.payload.value.val = RoundedMinorUnits(q.parsed)

\* --------------------------------------------------------------------- C20
\* C20: once the page polls, its interval is eventually cleared, whatever
\* the poll requests return.
C20_PollingStops == (phase = "polling") ~> (phase = "stopped")

====
